---------------------------- MODULE Spec2Model ----------------------------
(***************************************************************************)
(* billBoss backend (src/backend/src/index.ts, src/backend/schema.sql):    *)
(* recurring bills expanded into dated occurrences, materialised on        *)
(* GET /api/bills?month=, and edited / soft-deleted with the "this" and    *)
(* "future" scopes of PUT and DELETE /api/bills/:id.                       *)
(*                                                                         *)
(* Representation.                                                         *)
(*  - A date string "YYYY-MM-DD" of the database is the tuple <<y, m, d>>; *)
(*    SQL's string comparison of two such strings is the lexicographic     *)
(*    order of the tuples.  A month token "YYYY-MM" is <<y, m>>.           *)
(*  - A JavaScript Date at local midnight is its day number (days since    *)
(*    1970-01-01); the invalid Date is NaN.  parseISO and formatISO        *)
(*    convert between the two representations.                             *)
(*  - uuidv4() is a fresh identifier: the smallest numbers above every id  *)
(*    already in the table.                                                *)
(*  - An Error's message is a sequence of words; String.includes is        *)
(*    membership of a word.                                                *)
(***************************************************************************)
EXTENDS Integers, Sequences, FiniteSets, TLC

-----------------------------------------------------------------------------
(* Calendar arithmetic: JavaScript Date and date-fns                       *)

NaN == -1000000

NULL == <<>>

IsLeap(y) == (y % 4 = 0 /\ y % 100 # 0) \/ (y % 400 = 0)

DaysInMonth(y, m) ==
    IF m = 2 THEN (IF IsLeap(y) THEN 29 ELSE 28)
    ELSE IF m \in {4, 6, 9, 11} THEN 30 ELSE 31

\* Days since 1970-01-01 of a civil date, and back, by the proleptic Gregorian
\* calendar in 400-year eras whose years start on March 1.
DaysOfEra(era, yoe, doy) ==
    era * 146097 + (yoe * 365 + yoe \div 4 - yoe \div 100 + doy) - 719468

DaysOfMarchYear(yy, mp, d) ==
    DaysOfEra(yy \div 400, yy % 400, (153 * mp + 2) \div 5 + d - 1)

\* new Date(y, m - 1, d).getTime() in days, for a valid civil date
DaysFromCivil(y, m, d) ==
    DaysOfMarchYear(IF m <= 2 THEN y - 1 ELSE y, IF m > 2 THEN m - 3 ELSE m + 9, d)

CivilOfMonth(era, yoe, doy, mp) ==
    <<yoe + era * 400 + (IF mp >= 10 THEN 1 ELSE 0),
      IF mp < 10 THEN mp + 3 ELSE mp - 9,
      doy - (153 * mp + 2) \div 5 + 1>>

CivilOfDayOfYear(era, yoe, doy) == CivilOfMonth(era, yoe, doy, (5 * doy + 2) \div 153)

CivilOfYearOfEra(era, doe, yoe) ==
    CivilOfDayOfYear(era, yoe, doe - (365 * yoe + yoe \div 4 - yoe \div 100))

CivilOfDayOfEra(era, doe) ==
    CivilOfYearOfEra(era, doe,
        (doe - doe \div 1460 + doe \div 36524 - doe \div 146096) \div 365)

\* <<getFullYear(), getMonth() + 1, getDate()>> of a valid Date
CivilFromDays(z) == CivilOfDayOfEra((z + 719468) \div 146097, (z + 719468) % 146097)

\* a date string that names a day of the calendar
IsDateString(s) ==
    /\ Len(s) = 3
    /\ s[2] \in 1..12
    /\ s[3] \in 1..DaysInMonth(s[1], s[2])

parseISO(s) == IF IsDateString(s) THEN DaysFromCivil(s[1], s[2], s[3]) ELSE NaN

\* formatISO(date, { representation: "date" })
formatISO(t) == CivilFromDays(t)

isNaN(t) == t = NaN

isAfter(a, b) == a > b

isBefore(a, b) == a < b

addDays(t, n) == t + n

addWeeks(t, n) == addDays(t, 7 * n)

\* the day of a month, clamped to the last day of the month
EndOfDesiredMonth(y, m, d) ==
    DaysFromCivil(y, m, IF d >= DaysInMonth(y, m) THEN DaysInMonth(y, m) ELSE d)

\* the civil date c moved to the month with index mi (months since year 0)
SetMonth(c, mi) == EndOfDesiredMonth(mi \div 12, (mi % 12) + 1, c[3])

SetMonthsLater(c, n) == SetMonth(c, c[1] * 12 + (c[2] - 1) + n)

\* date-fns addMonths: same day-of-month, clamped to the end of a shorter month
addMonths(t, n) == SetMonthsLater(CivilFromDays(t), n)

addYears(t, n) == addMonths(t, n * 12)

\* string comparison of two date strings (SQL <, >=, BETWEEN on TEXT)
StrLess(a, b) ==
    \/ a[1] < b[1]
    \/ a[1] = b[1] /\ a[2] < b[2]
    \/ a[1] = b[1] /\ a[2] = b[2] /\ a[3] < b[3]

StrLeq(a, b) == a = b \/ StrLess(a, b)

\* due_date.startsWith(month)
startsWith(s, month) == s[1] = month[1] /\ s[2] = month[2]


-----------------------------------------------------------------------------
(* The D1 database: tables Bill and BillOccurrence (schema.sql)            *)

VARIABLES
    workload,        \* the sets the requests of the run draw their inputs from
    Bill,            \* table "Bill": the rows in rowid (insertion) order
    BillOccurrence,  \* table "BillOccurrence": a set of rows
    resp,            \* the last request handled and its response; the id of a
                     \* rejected update or delete is not recorded
    prev,            \* history: the request handled just before a get-window request
    haltedFrom,      \* history: per series, the earliest boundary a future-scope delete has set
    removed,         \* history: the <<series, due date>> of the occurrences a
                     \* this-scope delete has soft-deleted
    movedFrom,       \* history: the <<series, due date>> a this-scope update has
                     \* moved an occurrence away from
    nWindows,        \* number of get-window requests handled
    nEdits,          \* number of update / delete requests handled
    nFailures,       \* number of storage failures injected
    requests,        \* the get-window requests in flight: per request its position
                     \* in the handler and what it has read so far
    deleting,        \* the future-scope delete in flight beside the get-window
                     \* requests: its position in the handler and the row it has read
    generated        \* the last call of generateOccurrences on its own: its
                     \* arguments and the occurrences it returned

vars == <<workload, Bill, BillOccurrence, resp, prev, haltedFrom, removed, movedFrom, nWindows, nEdits, nFailures,
          requests, deleting, generated>>

\* message of the error D1 raises when UNIQUE ("bill_id", "due_date") fails;
\* the constraint of schema.sql is unnamed and SQLite names the columns
UniqueConstraintFailed ==
    <<"D1_ERROR:", "UNIQUE", "constraint", "failed:",
      "BillOccurrence.bill_id,", "BillOccurrence.due_date:", "SQLITE_CONSTRAINT">>

\* message of the error of a failed storage call
StorageFailed == <<"D1_ERROR:", "Network", "connection", "lost.">>

\* err.message.includes(word)
includes(message, word) == \E i \in 1..Len(message) : message[i] = word

\* variant: a schema without the UNIQUE constraint
NoUniqueConstraint(table, self, bill_id, due_date) == FALSE

\* UNIQUE ("bill_id", "due_date"): a row of the table, other than the row
\* `self`, already holds the pair; deleted rows count
UniqueViolation(table, self, bill_id, due_date) ==
    \E r \in table : r.id # self /\ r.bill_id = bill_id /\ r.due_date = due_date

\* SELECT * FROM BillOccurrence WHERE id = ?
SelectById(table, id) == {r \in table : r.id = id}

\* SELECT * FROM BillOccurrence WHERE due_date BETWEEN ? AND ? AND deleted = 0
SelectWindow(table, startDate, endDate) ==
    {r \in table : StrLeq(startDate, r.due_date) /\ StrLeq(r.due_date, endDate)
                   /\ ~r.deleted}

\* SELECT * FROM Bill WHERE deletedFromDate IS NULL OR deletedFromDate > ?
SelectActiveBills(bills, endDate) ==
    SelectSeq(bills, LAMBDA b : b.deletedFromDate = NULL
                                \/ StrLess(endDate, b.deletedFromDate))

\* variant: the boundary write is left out
KeepDeletedFrom(bills, id, date) == bills

\* UPDATE Bill SET deletedFromDate = ? WHERE id = ?
SetDeletedFrom(bills, id, date) ==
    [i \in 1..Len(bills) |->
        IF bills[i].id = id THEN [bills[i] EXCEPT !.deletedFromDate = date]
        ELSE bills[i]]

MaxOf(S) == IF S = {} THEN 0 ELSE CHOOSE x \in S : \A y \in S : y <= x

\* uuidv4(): the first identifier a request draws while `table` is the stored
\* table; the following draws of the request count up from it
uuidv4(table) == MaxOf({r.id : r \in table}) + 1

-----------------------------------------------------------------------------
(* generateOccurrences                                                     *)

\* the cursor increment at the end of the loop body
NextCursor(recurrence, currentDate) ==
    IF recurrence = "weekly" THEN addWeeks(currentDate, 1)
    ELSE IF recurrence = "monthly" THEN addMonths(currentDate, 1)
    ELSE addYears(currentDate, 1)

\* variant: the loop breaks only after the boundary (isAfter)
StopsAfterBoundary(bill, currentDate) ==
    /\ bill.deletedFromDate # NULL
    /\ \/ isNaN(parseISO(bill.deletedFromDate))
       \/ isAfter(currentDate, parseISO(bill.deletedFromDate))

\* the deletedFromDate check at the head of the loop body: TRUE when the loop breaks
StopsAtBoundary(bill, currentDate) ==
    /\ bill.deletedFromDate # NULL
    /\ \/ isNaN(parseISO(bill.deletedFromDate))
       \/ ~isBefore(currentDate, parseISO(bill.deletedFromDate))

\* SELECT * FROM BillOccurrence WHERE bill_id = ? AND due_date = ? AND deleted = 0
SelectExisting(table, bill_id, due_date) ==
    {r \in table : r.bill_id = bill_id /\ r.due_date = due_date /\ ~r.deleted}

\* the cursor dates the while loop visits when no boundary stops it: from
\* currentDate in steps of the recurrence while !isAfter(currentDate, endDate);
\* one date for a non-recurring bill (break)
RECURSIVE Cursors(_, _, _)
Cursors(recurrence, currentDate, endDate) ==
    IF isAfter(currentDate, endDate) THEN <<>>
    ELSE IF recurrence \in {"weekly", "monthly", "yearly"}
    THEN <<currentDate>> \o Cursors(recurrence, NextCursor(recurrence, currentDate), endDate)
    ELSE <<currentDate>>

\* the candidate pushed for a cursor date
Candidate(bill, occurrenceDate, id) ==
    [id        |-> id,
     bill_id   |-> bill.id,
     name      |-> bill.name,
     due_date  |-> occurrenceDate,
     is_paid   |-> FALSE,
     paid_date |-> NULL,
     amount    |-> bill.amount,
     status    |-> "upcoming",
     deleted   |-> FALSE]

\* the occurrences pushed for the cursor dates without a non-deleted row;
\* `nextId` is the identifier the first uuidv4() of the call returns
Pushed(bill, dates, nextId) ==
    [k \in 1..Len(dates) |-> Candidate(bill, formatISO(dates[k]), nextId + k - 1)]

\* The loop of generateOccurrences from the parsed anchor.  The cursor only
\* moves forward, so the break at the boundary cuts the walk at the first date
\* on or after it: the dates visited are the dates of the walk before the
\* boundary.  The table does not change during the loop, so a date is pushed
\* exactly when it has no non-deleted row.
GenerateFrom(bill, currentDate, monthsAhead, table, nextId) ==
    Pushed(bill,
           SelectSeq(Cursors(bill.recurrence, currentDate,
                             addMonths(currentDate, monthsAhead)),
                     LAMBDA d : /\ ~StopsAtBoundary(bill, d)
                                /\ SelectExisting(table, bill.id, formatISO(d)) = {}),
           nextId)

\* variant: the dueDate is not validated; a day or month out of range rolls over
generateUnvalidated(bill, monthsAhead, table, nextId) ==
    GenerateFrom(bill, DaysFromCivil(bill.dueDate[1], bill.dueDate[2], bill.dueDate[3]),
                 monthsAhead, table, nextId)

\* generateOccurrences: an unparseable dueDate returns the empty list
generateOccurrences(bill, monthsAhead, table, nextId) ==
    IF isNaN(parseISO(bill.dueDate)) THEN <<>>
    ELSE GenerateFrom(bill, parseISO(bill.dueDate), monthsAhead, table, nextId)

-----------------------------------------------------------------------------
(* Bounds and request inputs                                               *)

MaxWindows == 2    \* get-window requests handled in a run
MaxEdits == 2      \* update and delete requests handled in a run
MaxFailures == 1   \* storage failures injected in a run

\* bodies of POST /api/bills
Rent == [name |-> "rent", amount |-> 100, dueDate |-> <<2024, 1, 15>>, recurrence |-> "monthly"]

Gym == [name |-> "gym", amount |-> 20, dueDate |-> <<2024, 1, 3>>, recurrence |-> "weekly"]

Lease == [name |-> "lease", amount |-> 900, dueDate |-> <<2024, 1, 31>>, recurrence |-> "monthly"]

Tax == [name |-> "tax", amount |-> 70, dueDate |-> <<2024, 2, 29>>, recurrence |-> "daily"]

\* A body of PUT /api/bills/:id, without updateOption, is a record of the
\* fields it supplies; a field it leaves out is undefined.
Fields == [name |-> "edited", amount |-> 150, is_paid |-> TRUE,
           paid_date |-> <<2025, 1, 9>>, status |-> "completed"]

Move(d) == [dueDate |-> d]

\* an id no occurrence has
UnknownId == 0

\* The requests of a run draw their inputs from the sets of one workload:
\*   series  bodies of POST /api/bills, each accepted once
\*   months  values of the query parameter month of GET /api/bills
\*   dates   update and delete requests address, by id, the occurrences due
\*           on these dates
\*   ids     further ids update and delete requests address
\*   bodies  bodies of PUT /api/bills/:id
\*   options values of updateOption and deleteOption
Workloads ==
    { \* a monthly series edited and materialised beyond its 12-month horizon
      [series |-> {Rent}, months |-> {<<2025, 2>>, <<2025, 3>>},
       dates |-> {<<2025, 1, 15>>, <<2025, 3, 15>>}, ids |-> {},
       bodies |-> {Fields}, options |-> {"this", "future"}],
      \* a weekly series whose 12-month horizon ends inside January 2025
      [series |-> {Gym}, months |-> {<<2025, 1>>, <<2025, 2>>},
       dates |-> {<<2025, 1, 1>>, <<2025, 2, 12>>}, ids |-> {},
       bodies |-> {Fields}, options |-> {"this", "future"}],
      \* due dates moved onto free and onto taken dates
      [series |-> {Rent}, months |-> {<<2024, 12>>, <<2025, 1>>},
       dates |-> {<<2024, 12, 15>>, <<2025, 1, 15>>, <<2025, 1, 20>>}, ids |-> {},
       bodies |-> {Move(<<2025, 1, 15>>), Move(<<2025, 1, 20>>)},
       options |-> {"this", "future"}],
      \* a monthly and a weekly series side by side
      [series |-> {Rent, Gym}, months |-> {<<2025, 1>>},
       dates |-> {<<2025, 1, 15>>, <<2025, 1, 1>>}, ids |-> {},
       bodies |-> {Fields}, options |-> {"this", "future"}],
      \* a monthly series anchored on the last day of a month
      [series |-> {Lease}, months |-> {<<2025, 2>>},
       dates |-> {<<2024, 3, 29>>}, ids |-> {},
       bodies |-> {Fields}, options |-> {"this"}],
      \* requests the handlers reject
      [series |-> {Rent, Tax}, months |-> {<<2025, 1>>, <<2025, 13>>},
       dates |-> {<<2025, 1, 15>>}, ids |-> {UnknownId},
       bodies |-> {Fields, Move(<<2025, 1, 20>>)},
       options |-> {"this", "future", "all"}] }

NoResp == [op |-> "none", status |-> 0, id |-> UnknownId, option |-> "", month |-> NULL,
           body |-> {}, toInsert |-> {}, error |-> NULL]

-----------------------------------------------------------------------------
(* Request handlers                                                        *)

RECURSIVE InsertLoop(_, _, _, _)

\* variant: the loop returns after its first INSERT and reports success
InsertFirstOnly(table, occurrencesToInsert, i, failAt) ==
    IF i > Len(occurrencesToInsert) THEN [table |-> table, error |-> NULL]
    ELSE [table |-> table \cup {occurrencesToInsert[i]}, error |-> NULL]

\* the insert loop of GET /api/bills (and of POST /api/bills): one INSERT per
\* candidate; the failAt-th INSERT fails in storage (0: none does)
InsertLoop(table, occurrencesToInsert, i, failAt) ==
    IF i > Len(occurrencesToInsert) THEN [table |-> table, error |-> NULL]
    ELSE
      LET occ == occurrencesToInsert[i]
          err == IF i = failAt THEN StorageFailed
                 ELSE IF UniqueViolation(table, occ.id, occ.bill_id, occ.due_date)
                      THEN UniqueConstraintFailed
                 ELSE NULL
      IN  IF err = NULL
          THEN InsertLoop(table \cup {occ}, occurrencesToInsert, i + 1, failAt)
          ELSE IF includes(err, "unique_bill_due_date")
          THEN InsertLoop(table, occurrencesToInsert, i + 1, failAt)
          ELSE [table |-> table, error |-> err]

\* POST /api/bills; the run posts a body it has not had accepted yet
CreateBill(input) ==
    /\ \A i \in 1..Len(Bill) : Bill[i].name # input.name
    /\ prev' = NoResp
    /\ UNCHANGED <<workload, removed, movedFrom, nWindows, nEdits, nFailures, requests, deleting, generated>>
    /\ IF \/ input.recurrence \notin {"none", "weekly", "monthly", "yearly"}
          \/ isNaN(parseISO(input.dueDate))
       THEN /\ resp' = [NoResp EXCEPT !.op = "POST", !.status = 400]
            /\ UNCHANGED <<Bill, BillOccurrence, haltedFrom>>
       ELSE LET newBill == [id |-> Len(Bill) + 1,
                            name |-> input.name,
                            amount |-> input.amount,
                            dueDate |-> input.dueDate,
                            recurrence |-> input.recurrence,
                            skipped |-> FALSE,
                            deletedFromDate |-> NULL]
            IN  \E initialOccurrences \in
                    {generateOccurrences(newBill, 12, BillOccurrence,
                                         uuidv4(BillOccurrence))} :
                \E done \in {InsertLoop(BillOccurrence, initialOccurrences, 1, 0)} :
                    /\ Bill' = Append(Bill, newBill)
                    /\ haltedFrom' = Append(haltedFrom, NULL)
                    /\ BillOccurrence' = done.table
                    /\ resp' = [NoResp EXCEPT
                                  !.op = "POST",
                                  !.status = IF done.error = NULL THEN 201 ELSE 500,
                                  !.id = newBill.id,
                                  !.error = done.error]

\* some existing occurrence of the window belongs to the bill and the month
hasOccurrence(bill, month, existingOccurrences) ==
    \E occ \in existingOccurrences :
        occ.bill_id = bill.id /\ startsWith(occ.due_date, month)

\* (year - billDueDate.getFullYear()) * 12 + (monthNumber - 1 - billDueDate.getMonth()),
\* billDueDate given by its civil date
monthsDifference(billDueDate, month) ==
    (month[1] - billDueDate[1]) * 12 + (month[2] - 1 - (billDueDate[2] - 1))

\* the bill of the loop is passed over: it has an occurrence in the month, or
\* it starts after the month (an unparseable dueDate generates nothing)
Skipped(bill, month, existingOccurrences) ==
    \/ hasOccurrence(bill, month, existingOccurrences)
    \/ isNaN(parseISO(bill.dueDate))
    \/ monthsDifference(formatISO(parseISO(bill.dueDate)), month) < 0

\* the loop over the active bills of GET /api/bills: the candidates to insert;
\* `nextId` is the identifier the next uuidv4() returns
RECURSIVE CollectCandidates(_, _, _, _, _, _, _)

\* variant: every generated occurrence is kept, whatever its month
KeepAll(bills, i, month, existingOccurrences, table, nextId, occurrencesToInsert, generatedOccurrences) ==
    CollectCandidates(bills, i + 1, month, existingOccurrences, table,
                      nextId + Len(generatedOccurrences),
                      occurrencesToInsert \o generatedOccurrences)

\* the end of the loop body: the generated occurrences of the month are kept
KeepOfMonth(bills, i, month, existingOccurrences, table, nextId, occurrencesToInsert, generatedOccurrences) ==
    CollectCandidates(bills, i + 1, month, existingOccurrences, table,
                      nextId + Len(generatedOccurrences),
                      occurrencesToInsert \o
                          SelectSeq(generatedOccurrences,
                                    LAMBDA occ : startsWith(occ.due_date, month)))

CollectCandidates(bills, i, month, existingOccurrences, table, nextId, occurrencesToInsert) ==
    IF i > Len(bills) THEN occurrencesToInsert
    ELSE IF Skipped(bills[i], month, existingOccurrences)
    THEN CollectCandidates(bills, i + 1, month, existingOccurrences, table,
                           nextId, occurrencesToInsert)
    ELSE KeepOfMonth(bills, i, month, existingOccurrences, table, nextId,
                     occurrencesToInsert,
                     generateOccurrences(
                         bills[i],
                         monthsDifference(formatISO(parseISO(bills[i].dueDate)), month) + 1,
                         table, nextId))

\* the <<bill_id, due_date>> pairs of a list of candidates
Keys(occurrences) ==
    {<<occurrences[k].bill_id, occurrences[k].due_date>> : k \in 1..Len(occurrences)}

\* first and last day of the month of GET /api/bills
WindowStart(month) == formatISO(DaysFromCivil(month[1], month[2], 1))

WindowEnd(month) ==
    formatISO(DaysFromCivil(month[1] + (month[2] \div 12), (month[2] % 12) + 1, 1) - 1)

\* GET /api/bills?month= ; the failAt-th INSERT of the request fails in storage
\* (0: none does)
GetWindow(month) ==
    /\ nWindows < MaxWindows
    /\ nWindows' = nWindows + 1
    /\ prev' = [resp EXCEPT !.body = {}]
    /\ UNCHANGED <<workload, Bill, haltedFrom, removed, movedFrom, nEdits, requests, deleting, generated>>
    /\ IF month[2] < 1 \/ month[2] > 12
       THEN /\ resp' = [NoResp EXCEPT !.op = "GET", !.status = 400, !.month = month]
            /\ UNCHANGED <<BillOccurrence, nFailures>>
       ELSE \E startDate \in {WindowStart(month)} :
            \E endDate \in {WindowEnd(month)} :
            \E existingOccurrences \in {SelectWindow(BillOccurrence, startDate, endDate)} :
            \E bills \in {SelectActiveBills(Bill, endDate)} :
                \E occurrencesToInsert \in
                    {CollectCandidates(bills, 1, month, existingOccurrences,
                                       BillOccurrence, uuidv4(BillOccurrence), <<>>)} :
                \E failAt \in 0..(IF nFailures < MaxFailures
                                   THEN Len(occurrencesToInsert) ELSE 0) :
                \E done \in {InsertLoop(BillOccurrence, occurrencesToInsert, 1, failAt)} :
                    /\ nFailures' = IF failAt > 0 THEN nFailures + 1 ELSE nFailures
                    /\ BillOccurrence' = done.table
                    /\ resp' = [NoResp EXCEPT
                                  !.op = "GET",
                                  !.status = IF done.error = NULL THEN 200 ELSE 500,
                                  !.month = month,
                                  !.body = IF done.error = NULL
                                           THEN SelectWindow(done.table, startDate, endDate)
                                           ELSE {},
                                  !.toInsert = Keys(occurrencesToInsert),
                                  !.error = done.error]

\* field !== undefined ? field : existingOccurrence.field
Supplied(body, field, stored) == IF field \in DOMAIN body THEN body[field] ELSE stored

\* variant: the SET list of the single-row update leaves due_date out
UpdateThisKeepingDueDate(table, id, f) ==
    {IF r.id = id
     THEN [r EXCEPT !.name = f.name, !.amount = f.amount,
                    !.is_paid = f.is_paid, !.paid_date = f.paid_date,
                    !.status = f.status]
     ELSE r : r \in table}

\* UPDATE BillOccurrence SET name, amount, due_date, is_paid, paid_date, status WHERE id = ?
UpdateThis(table, id, f) ==
    {IF r.id = id
     THEN [r EXCEPT !.name = f.name, !.amount = f.amount, !.due_date = f.due_date,
                    !.is_paid = f.is_paid, !.paid_date = f.paid_date,
                    !.status = f.status]
     ELSE r : r \in table}

\* variant: the statement reuses the SET list of the single-row update,
\* due_date included
UpdateFutureWithDueDate(table, bill_id, due_date, f) ==
    {IF r.bill_id = bill_id /\ StrLeq(due_date, r.due_date)
     THEN [r EXCEPT !.name = f.name, !.amount = f.amount, !.due_date = f.due_date,
                    !.is_paid = f.is_paid, !.paid_date = f.paid_date,
                    !.status = f.status]
     ELSE r : r \in table}

\* UPDATE BillOccurrence SET name, amount, is_paid, paid_date, status
\*   WHERE bill_id = ? AND due_date >= ?
UpdateFuture(table, bill_id, due_date, f) ==
    {IF r.bill_id = bill_id /\ StrLeq(due_date, r.due_date)
     THEN [r EXCEPT !.name = f.name, !.amount = f.amount, !.is_paid = f.is_paid,
                    !.paid_date = f.paid_date, !.status = f.status]
     ELSE r : r \in table}

\* variant: the boundary is the target's due date itself
SameDay(due_date) == formatISO(addDays(parseISO(due_date), 0))

\* formatISO(addDays(parseISO(due_date), 1), { representation: "date" })
DayAfter(due_date) == formatISO(addDays(parseISO(due_date), 1))

\* the fields PUT writes: the body's where it supplies them, the stored ones elsewhere
UpdatedFields(body, existingOccurrence) ==
    [name      |-> Supplied(body, "name", existingOccurrence.name),
     amount    |-> Supplied(body, "amount", existingOccurrence.amount),
     due_date  |-> Supplied(body, "dueDate", existingOccurrence.due_date),
     is_paid   |-> Supplied(body, "is_paid", existingOccurrence.is_paid),
     paid_date |-> Supplied(body, "paid_date", existingOccurrence.paid_date),
     status    |-> Supplied(body, "status", existingOccurrence.status)]

\* variant: the guard of the future branch is left out
KeepsDueDate(body, existingOccurrence) == FALSE

\* dueDate !== undefined && dueDate !== existingOccurrence.due_date
ChangesDueDate(body, existingOccurrence) ==
    "dueDate" \in DOMAIN body /\ body.dueDate # existingOccurrence.due_date

\* PUT /api/bills/:id
UpdateOccurrence(id, body, updateOption) ==
    /\ nEdits < MaxEdits
    /\ nEdits' = nEdits + 1
    /\ prev' = NoResp
    /\ UNCHANGED <<workload, haltedFrom, removed, nWindows, nFailures, requests, deleting, generated>>
    /\ LET req == [NoResp EXCEPT !.op = "PUT", !.id = id, !.option = updateOption]
           rejected == [NoResp EXCEPT !.op = "PUT", !.option = updateOption]
       IN  IF updateOption # "this" /\ updateOption # "future"
           THEN /\ resp' = [rejected EXCEPT !.status = 400]
                /\ UNCHANGED <<Bill, BillOccurrence, movedFrom>>
           ELSE IF SelectById(BillOccurrence, id) = {}
           THEN /\ resp' = [rejected EXCEPT !.status = 404]
                /\ UNCHANGED <<Bill, BillOccurrence, movedFrom>>
           ELSE
             \E existingOccurrence \in SelectById(BillOccurrence, id) :
             \E updatedFields \in {UpdatedFields(body, existingOccurrence)} :
               IF updateOption = "this"
               THEN IF UniqueViolation(BillOccurrence, id, existingOccurrence.bill_id,
                                       updatedFields.due_date)
                    THEN /\ resp' = [rejected EXCEPT
                                       !.status = IF includes(UniqueConstraintFailed,
                                                              "unique_bill_due_date")
                                                  THEN 409 ELSE 500,
                                       !.error = UniqueConstraintFailed]
                         /\ UNCHANGED <<Bill, BillOccurrence, movedFrom>>
                    ELSE /\ BillOccurrence' = UpdateThis(BillOccurrence, id, updatedFields)
                         /\ movedFrom' =
                                IF updatedFields.due_date # existingOccurrence.due_date
                                THEN movedFrom \cup {<<existingOccurrence.bill_id,
                                                        existingOccurrence.due_date>>}
                                ELSE movedFrom
                         /\ resp' = [req EXCEPT !.status = 200]
                         /\ UNCHANGED Bill
               ELSE IF ChangesDueDate(body, existingOccurrence)
                    THEN /\ resp' = [rejected EXCEPT !.status = 400]
                         /\ UNCHANGED <<Bill, BillOccurrence, movedFrom>>
                    ELSE /\ BillOccurrence' =
                                UpdateFuture(BillOccurrence, existingOccurrence.bill_id,
                                             existingOccurrence.due_date, updatedFields)
                         /\ Bill' = SetDeletedFrom(Bill, existingOccurrence.bill_id,
                                                   DayAfter(existingOccurrence.due_date))
                         /\ resp' = [req EXCEPT !.status = 200]
                         /\ UNCHANGED movedFrom

\* variant: the statement has no WHERE clause
DeleteEveryRow(table, id) == {[r EXCEPT !.deleted = TRUE] : r \in table}

\* variant: the row is removed (DELETE FROM BillOccurrence WHERE id = ?)
DeleteRow(table, id) == {r \in table : r.id # id}

\* UPDATE BillOccurrence SET deleted = 1 WHERE id = ?
DeleteThis(table, id) ==
    {IF r.id = id THEN [r EXCEPT !.deleted = TRUE] ELSE r : r \in table}

\* variant: the statement has no bill_id condition
DeleteFutureAnySeries(table, bill_id, due_date) ==
    {IF StrLeq(due_date, r.due_date)
     THEN [r EXCEPT !.deleted = TRUE]
     ELSE r : r \in table}

\* UPDATE BillOccurrence SET deleted = 1 WHERE bill_id = ? AND due_date >= ?
DeleteFuture(table, bill_id, due_date) ==
    {IF r.bill_id = bill_id /\ StrLeq(due_date, r.due_date)
     THEN [r EXCEPT !.deleted = TRUE] ELSE r : r \in table}

\* the earlier of a recorded boundary and a new one
Earlier(recorded, date) ==
    IF recorded = NULL \/ StrLess(date, recorded) THEN date ELSE recorded

\* DELETE /api/bills/:id
DeleteOccurrence(id, deleteOption) ==
    /\ nEdits < MaxEdits
    /\ nEdits' = nEdits + 1
    /\ prev' = NoResp
    /\ UNCHANGED <<workload, movedFrom, nWindows, nFailures, requests, deleting, generated>>
    /\ LET req == [NoResp EXCEPT !.op = "DELETE", !.id = id, !.option = deleteOption]
           rejected == [NoResp EXCEPT !.op = "DELETE", !.option = deleteOption]
       IN  IF deleteOption # "this" /\ deleteOption # "future"
           THEN /\ resp' = [rejected EXCEPT !.status = 400]
                /\ UNCHANGED <<Bill, BillOccurrence, haltedFrom, removed>>
           ELSE IF SelectById(BillOccurrence, id) = {}
           THEN /\ resp' = [rejected EXCEPT !.status = 404]
                /\ UNCHANGED <<Bill, BillOccurrence, haltedFrom, removed>>
           ELSE
             \E existingOccurrence \in SelectById(BillOccurrence, id) :
             \E newDeletedFromDate \in {DayAfter(existingOccurrence.due_date)} :
               IF deleteOption = "this"
               THEN /\ BillOccurrence' = DeleteThis(BillOccurrence, id)
                    /\ removed' = removed \cup {<<existingOccurrence.bill_id,
                                                     existingOccurrence.due_date>>}
                    /\ resp' = [req EXCEPT !.status = 200]
                    /\ UNCHANGED <<Bill, haltedFrom>>
               ELSE /\ BillOccurrence' =
                           DeleteFuture(BillOccurrence, existingOccurrence.bill_id,
                                        existingOccurrence.due_date)
                    /\ Bill' = SetDeletedFrom(Bill, existingOccurrence.bill_id,
                                              newDeletedFromDate)
                    /\ haltedFrom' =
                           [haltedFrom EXCEPT ![existingOccurrence.bill_id] =
                               Earlier(@, newDeletedFromDate)]
                    /\ resp' = [req EXCEPT !.status = 200]
                    /\ UNCHANGED removed

-----------------------------------------------------------------------------
(* Specification                                                           *)

\* ids update and delete requests are addressed to
TargetIds == {r.id : r \in {x \in BillOccurrence : x.due_date \in workload.dates}}
             \cup workload.ids

Init ==
    /\ workload \in Workloads
    /\ Bill = <<>>
    /\ BillOccurrence = {}
    /\ resp = NoResp
    /\ prev = NoResp
    /\ haltedFrom = <<>>
    /\ removed = {}
    /\ movedFrom = {}
    /\ nWindows = 0
    /\ nEdits = 0
    /\ nFailures = 0
    /\ requests = <<>>
    /\ deleting = NULL
    /\ generated = NULL

Next ==
    \/ \E input \in workload.series : CreateBill(input)
    \/ \E month \in workload.months : GetWindow(month)
    \/ \E id \in TargetIds : \E body \in workload.bodies : \E o \in workload.options :
           UpdateOccurrence(id, body, o)
    \/ \E id \in TargetIds : \E o \in workload.options : DeleteOccurrence(id, o)

Spec == Init /\ [][Next]_vars

-----------------------------------------------------------------------------
(* generateOccurrences on its own: a series, a horizon and a store         *)

MaxStored == 2     \* occurrences of the series persisted before a call

\* anchors: mid-month, the 31st before a leap and before a common February,
\* and February 29
Anchors == {<<2024, 1, 15>>, <<2024, 1, 31>>, <<2023, 1, 31>>, <<2024, 2, 29>>}

\* values of Bill.deletedFromDate: none, a date between two occurrences, and
\* the dates of a monthly and of a weekly occurrence
Boundaries == {NULL, <<2024, 2, 16>>, <<2024, 3, 15>>, <<2024, 1, 29>>}

\* values of monthsAhead
Horizons == {0, 1, 2, 3, 12}

\* the series the generator is called with
GeneratorBills ==
    {[id |-> 1, name |-> "bill", amount |-> 100, dueDate |-> a, recurrence |-> r,
      skipped |-> FALSE, deletedFromDate |-> b] :
        a \in Anchors, r \in {"none", "weekly", "monthly", "yearly"}, b \in Boundaries}

GeneratorInit ==
    /\ workload = [series |-> {}, months |-> {}, dates |-> {}, ids |-> {},
                   bodies |-> {}, options |-> {}]
    /\ \E bill \in GeneratorBills : Bill = <<bill>>
    /\ BillOccurrence = {}
    /\ resp = NoResp
    /\ prev = NoResp
    /\ haltedFrom = <<NULL>>
    /\ removed = {}
    /\ movedFrom = {}
    /\ nWindows = 0
    /\ nEdits = 0
    /\ nFailures = 0
    /\ requests = <<>>
    /\ deleting = NULL
    /\ generated = NULL

\* await generateOccurrences(bill, monthsAhead, c)
Generate(monthsAhead) ==
    /\ generated' = [bill |-> Bill[1], monthsAhead |-> monthsAhead,
                     occurrences |-> generateOccurrences(Bill[1], monthsAhead, BillOccurrence,
                                                         uuidv4(BillOccurrence))]
    /\ UNCHANGED <<workload, Bill, BillOccurrence, resp, prev, haltedFrom, removed, movedFrom, nWindows, nEdits,
                   nFailures, requests, deleting>>

\* INSERT INTO BillOccurrence of one occurrence a call has returned
Persist(k) ==
    /\ generated # NULL
    /\ Cardinality(BillOccurrence) < MaxStored
    /\ k \in 1..Len(generated.occurrences)
    /\ ~UniqueViolation(BillOccurrence, generated.occurrences[k].id,
                        generated.occurrences[k].bill_id,
                        generated.occurrences[k].due_date)
    /\ BillOccurrence' = BillOccurrence \cup {generated.occurrences[k]}
    /\ UNCHANGED <<workload, Bill, resp, prev, haltedFrom, removed, movedFrom, nWindows, nEdits, nFailures,
                   requests, deleting, generated>>

GeneratorNext ==
    \/ \E monthsAhead \in Horizons : Generate(monthsAhead)
    \/ \E k \in 1..3 : Persist(k)

GeneratorSpec == GeneratorInit /\ [][GeneratorNext]_vars

\* ---------------------------------------------------------------------------
\* Get-window requests in flight together.  The handler of GET /api/bills
\* awaits each statement, so another request can run between any two of them;
\* a request is at "idle" (not started), "collect" (the window and the active
\* bills are read), "insert" (the candidates are collected; `i` is the next
\* one to insert) or "done" (answered with `status`).
\* ---------------------------------------------------------------------------
MaxRequests == 2   \* get-window requests in flight together

\* uuidv4() never returns an identifier twice: the r-th request draws its
\* identifiers from r * IdStride on
IdStride == 1000

IdleRequest == [pc |-> "idle", existingOccurrences |-> {}, bills |-> <<>>,
                occurrencesToInsert |-> <<>>, i |-> 1, status |-> 0, error |-> NULL]

\* the requests are for one month
ConcurrentWorkloads ==
    {[series |-> {Rent, Gym}, months |-> {month}, dates |-> {}, ids |-> {},
      bodies |-> {}, options |-> {}] : month \in {<<2025, 1>>, <<2025, 2>>}}

ConcurrentInit ==
    /\ workload \in ConcurrentWorkloads
    /\ Bill = <<>>
    /\ BillOccurrence = {}
    /\ resp = NoResp
    /\ prev = NoResp
    /\ haltedFrom = <<>>
    /\ removed = {}
    /\ movedFrom = {}
    /\ nWindows = 0
    /\ nEdits = 0
    /\ nFailures = 0
    /\ requests = [r \in 1..MaxRequests |-> IdleRequest]
    /\ deleting = NULL
    /\ generated = NULL

\* POST /api/bills, before the get-window requests arrive
Post(input) ==
    /\ \A r \in DOMAIN requests : requests[r].pc = "idle"
    /\ CreateBill(input)

\* GET /api/bills, the month is valid: the SELECT of the occurrences of the
\* window and the SELECT of the active bills
ReadWindow(r, month) ==
    /\ requests[r].pc = "idle"
    /\ requests' = [requests EXCEPT ![r] =
           [@ EXCEPT !.pc = "collect",
                     !.existingOccurrences =
                         SelectWindow(BillOccurrence, WindowStart(month), WindowEnd(month)),
                     !.bills = SelectActiveBills(Bill, WindowEnd(month))]]
    /\ UNCHANGED <<workload, Bill, BillOccurrence, resp, prev, haltedFrom, removed, movedFrom, nWindows, nEdits,
                   nFailures, deleting, generated>>

\* GET /api/bills: the loop over the active bills
Collect(r, month) ==
    /\ requests[r].pc = "collect"
    /\ requests' = [requests EXCEPT ![r] =
           [@ EXCEPT !.pc = "insert",
                     !.occurrencesToInsert =
                         CollectCandidates(requests[r].bills, 1, month,
                                           requests[r].existingOccurrences,
                                           BillOccurrence, r * IdStride, <<>>)]]
    /\ UNCHANGED <<workload, Bill, BillOccurrence, resp, prev, haltedFrom, removed, movedFrom, nWindows, nEdits,
                   nFailures, deleting, generated>>

\* GET /api/bills: one turn of the insert loop, its try and its catch; an
\* error the catch re-throws ends the request with 500
InsertOne(r) ==
    /\ requests[r].pc = "insert"
    /\ requests[r].i <= Len(requests[r].occurrencesToInsert)
    /\ \E done \in {InsertLoop(BillOccurrence,
                                <<requests[r].occurrencesToInsert[requests[r].i]>>, 1, 0)} :
           /\ BillOccurrence' = done.table
           /\ requests' = [requests EXCEPT ![r] =
                  IF done.error = NULL
                  THEN [@ EXCEPT !.i = @ + 1]
                  ELSE [@ EXCEPT !.pc = "done", !.status = 500, !.error = done.error]]
    /\ UNCHANGED <<workload, Bill, resp, prev, haltedFrom, removed, movedFrom, nWindows, nEdits, nFailures,
                   deleting, generated>>

\* GET /api/bills: the final SELECT and the response
FinalRead(r) ==
    /\ requests[r].pc = "insert"
    /\ requests[r].i > Len(requests[r].occurrencesToInsert)
    /\ requests' = [requests EXCEPT ![r] = [@ EXCEPT !.pc = "done", !.status = 200]]
    /\ UNCHANGED <<workload, Bill, BillOccurrence, resp, prev, haltedFrom, removed, movedFrom, nWindows, nEdits,
                   nFailures, deleting, generated>>

ConcurrentNext ==
    \/ \E input \in workload.series : Post(input)
    \/ \E r \in DOMAIN requests : \E month \in workload.months : ReadWindow(r, month)
    \/ \E r \in DOMAIN requests : \E month \in workload.months : Collect(r, month)
    \/ \E r \in DOMAIN requests : InsertOne(r)
    \/ \E r \in DOMAIN requests : FinalRead(r)

ConcurrentSpec == ConcurrentInit /\ [][ConcurrentNext]_vars

\* ---------------------------------------------------------------------------
\* A future-scope delete in flight beside the get-window requests.  The
\* handler of DELETE /api/bills/:id awaits its three statements one by one; it
\* is at "idle", "range" (the occurrence is read), "boundary" (the ranged
\* soft-delete has run) or "done" (the boundary is written).
\* ---------------------------------------------------------------------------
IdleDelete == [pc |-> "idle", existingOccurrence |-> NULL]

\* the get-window requests are for one month; the delete addresses an
\* occurrence of the month before
RaceWorkloads ==
    {[series |-> {Rent, Gym}, months |-> {<<2025, 2>>},
      dates |-> {<<2025, 1, 15>>, <<2025, 1, 1>>}, ids |-> {},
      bodies |-> {}, options |-> {"future"}]}

RaceInit ==
    /\ workload \in RaceWorkloads
    /\ Bill = <<>>
    /\ BillOccurrence = {}
    /\ resp = NoResp
    /\ prev = NoResp
    /\ haltedFrom = <<>>
    /\ removed = {}
    /\ movedFrom = {}
    /\ nWindows = 0
    /\ nEdits = 0
    /\ nFailures = 0
    /\ requests = [r \in 1..MaxRequests |-> IdleRequest]
    /\ deleting = IdleDelete
    /\ generated = NULL

\* DELETE /api/bills/:id, deleteOption future: the SELECT of the occurrence
DeleteLookup(id) ==
    /\ deleting.pc = "idle"
    /\ SelectById(BillOccurrence, id) # {}
    /\ \E existingOccurrence \in SelectById(BillOccurrence, id) :
           deleting' = [pc |-> "range", existingOccurrence |-> existingOccurrence]
    /\ UNCHANGED <<workload, Bill, BillOccurrence, resp, prev, haltedFrom, removed, movedFrom, nWindows, nEdits,
                   nFailures, requests, generated>>

\* DELETE /api/bills/:id, deleteOption future: sqlDeleteFuture
DeleteRange ==
    /\ deleting.pc = "range"
    /\ BillOccurrence' = DeleteFuture(BillOccurrence, deleting.existingOccurrence.bill_id,
                                      deleting.existingOccurrence.due_date)
    /\ deleting' = [deleting EXCEPT !.pc = "boundary"]
    /\ UNCHANGED <<workload, Bill, resp, prev, haltedFrom, removed, movedFrom, nWindows, nEdits, nFailures,
                   requests, generated>>

\* DELETE /api/bills/:id, deleteOption future: sqlUpdateBill and the response
DeleteBoundary ==
    /\ deleting.pc = "boundary"
    /\ Bill' = SetDeletedFrom(Bill, deleting.existingOccurrence.bill_id,
                              DayAfter(deleting.existingOccurrence.due_date))
    /\ haltedFrom' = [haltedFrom EXCEPT ![deleting.existingOccurrence.bill_id] =
                          Earlier(@, DayAfter(deleting.existingOccurrence.due_date))]
    /\ deleting' = [deleting EXCEPT !.pc = "done"]
    /\ UNCHANGED <<workload, BillOccurrence, resp, prev, removed, movedFrom, nWindows, nEdits, nFailures,
                   requests, generated>>

RaceNext ==
    \/ ConcurrentNext
    \/ \E id \in TargetIds : DeleteLookup(id)
    \/ DeleteRange
    \/ DeleteBoundary

RaceSpec == RaceInit /\ [][RaceNext]_vars

\* ---------------------------------------------------------------------------
\* A store that holds a Bill row POST /api/bills has not written: the column
\* dueDate is TEXT NOT NULL and the schema accepts any text in it.
\* ---------------------------------------------------------------------------
UnparseableDates == {<<2024, 2, 30>>, <<2024, 13, 1>>}

SeededBills ==
    {[id |-> 1, name |-> "legacy", amount |-> 5, dueDate |-> d, recurrence |-> "monthly",
      skipped |-> FALSE, deletedFromDate |-> NULL] : d \in UnparseableDates}

SeededWorkloads ==
    {[series |-> {Rent, Gym}, months |-> {<<2025, 2>>, <<2025, 3>>}, dates |-> {},
      ids |-> {}, bodies |-> {}, options |-> {}]}

SeededInit ==
    /\ workload \in SeededWorkloads
    /\ \E bill \in SeededBills : Bill = <<bill>>
    /\ BillOccurrence = {}
    /\ resp = NoResp
    /\ prev = NoResp
    /\ haltedFrom = <<NULL>>
    /\ removed = {}
    /\ movedFrom = {}
    /\ nWindows = 0
    /\ nEdits = 0
    /\ nFailures = 0
    /\ requests = <<>>
    /\ deleting = NULL
    /\ generated = NULL

SeededNext ==
    \/ \E input \in workload.series : CreateBill(input)
    \/ \E month \in workload.months : GetWindow(month)

SeededSpec == SeededInit /\ [][SeededNext]_vars

-----------------------------------------------------------------------------
(* Vocabulary of the properties                                            *)

\* the step handles a request of the kind
IsGetWindow == nWindows' = nWindows + 1

IsEdit == nEdits' = nEdits + 1

\* the request handled last was a successful split-edit of the kind
Succeeded(r, op, option) == r.op = op /\ r.option = option /\ r.status = 200

\* the calendar day after a date string, by the calendar alone
NextDay(d) ==
    IF d[3] < DaysInMonth(d[1], d[2]) THEN <<d[1], d[2], d[3] + 1>>
    ELSE IF d[2] < 12 THEN <<d[1], d[2] + 1, 1>>
    ELSE <<d[1] + 1, 1, 1>>

\* the calendar day before a date string
PrevDay(d) ==
    IF d[3] > 1 THEN <<d[1], d[2], d[3] - 1>>
    ELSE IF d[2] > 1 THEN <<d[1], d[2] - 1, DaysInMonth(d[1], d[2] - 1)>>
    ELSE <<d[1] - 1, 12, 31>>

MonthOf(d) == <<d[1], d[2]>>

MonthLess(a, b) == a[1] < b[1] \/ (a[1] = b[1] /\ a[2] < b[2])

\* the <<bill_id, due_date>> pairs of a table
KeysOf(table) == {<<r.bill_id, r.due_date>> : r \in table}

\* the rows a step has inserted
Inserted == {x \in BillOccurrence' : x.id \notin {r.id : r \in BillOccurrence}}

\* the row of a table with the id
RowOf(table, id) == CHOOSE r \in table : r.id = id

\* no row is inserted or removed by the step
SameIds == {r.id : r \in BillOccurrence'} = {r.id : r \in BillOccurrence}

\* the dates of the month the recurrence rule of the bill reaches from its anchor
RecurrenceDates(bill, month) ==
    LET walk == Cursors(bill.recurrence, parseISO(bill.dueDate),
                        parseISO(WindowEnd(month)))
    IN  {formatISO(walk[k]) : k \in {j \in 1..Len(walk) :
                                        startsWith(formatISO(walk[j]), month)}}

-----------------------------------------------------------------------------
(* Claims                                                                  *)

\* C1: in every reachable state no two non-deleted occurrences of the same
\* series share a due date.
C1_Uniqueness ==
    \A b \in 1..Len(Bill) :
        LET live == {r \in BillOccurrence : r.bill_id = b /\ ~r.deleted}
        IN  Cardinality({r.due_date : r \in live}) = Cardinality(live)

\* C1 witness: a get-window request has completed while a series holds an
\* occurrence moved by a this-scope update next to its other occurrences.
C1_Witness ==
    /\ resp.op = "GET" /\ resp.status = 200
    /\ \E r \in BillOccurrence, q \in BillOccurrence :
          /\ r.bill_id = q.bill_id /\ ~r.deleted /\ ~q.deleted
          /\ r.due_date = <<2025, 1, 20>> /\ q.due_date = <<2025, 1, 15>>

\* C2 (as claimed): when a get-window request for month M has completed, the
\* store holds a row for every date of M the recurrence rule reaches, for
\* every series whose boundary is null or after the last day of M.
C2_WindowComplete ==
    (resp.op = "GET" /\ resp.status = 200) =>
        \A b \in 1..Len(Bill) :
            (Bill[b].deletedFromDate = NULL
             \/ StrLess(WindowEnd(resp.month), Bill[b].deletedFromDate)) =>
                \A d \in RecurrenceDates(Bill[b], resp.month) :
                    <<b, d>> \in KeysOf(BillOccurrence)

C4_Reentrant ==
    [][(IsGetWindow /\ resp.op = "GET" /\ resp.error = StorageFailed
        /\ resp'.month = resp.month /\ resp'.error # StorageFailed)
       => /\ resp.toInsert \subseteq KeysOf(BillOccurrence')
          /\ KeysOf(BillOccurrence') \subseteq KeysOf(BillOccurrence) \cup resp.toInsert]_vars

\* C5: a successful future-scope update or delete on an occurrence due on d
\* leaves the boundary of its series at the day after d.
C5_Boundary ==
    [][\A r \in BillOccurrence :
          (IsEdit /\ resp'.id = r.id
           /\ (Succeeded(resp', "PUT", "future") \/ Succeeded(resp', "DELETE", "future")))
          => Bill'[r.bill_id].deletedFromDate = NextDay(r.due_date)]_vars

\* C5 witness: a future-scope request has succeeded on a series whose boundary
\* an earlier future-scope delete had set to another date.
C5_Witness ==
    /\ Succeeded(resp, "PUT", "future") \/ Succeeded(resp, "DELETE", "future")
    /\ \E r \in BillOccurrence :
          /\ r.id = resp.id
          /\ haltedFrom[r.bill_id] # NULL
          /\ haltedFrom[r.bill_id] # Bill[r.bill_id].deletedFromDate

\* C6: a future-scope update, successful or rejected, changes the due date of
\* no occurrence.
C6_DueDatesKept ==
    [][(IsEdit /\ resp'.op = "PUT" /\ resp'.option = "future")
       => /\ SameIds
          /\ \A r \in BillOccurrence :
                RowOf(BillOccurrence', r.id).due_date = r.due_date]_vars

\* C6 witness: a future-scope update has succeeded and has overwritten the
\* fields of two occurrences with different due dates.
C6_Witness ==
    /\ Succeeded(resp, "PUT", "future")
    /\ \E r \in BillOccurrence, q \in BillOccurrence :
          /\ r.id = resp.id /\ q.bill_id = r.bill_id
          /\ StrLess(r.due_date, q.due_date)
          /\ r.name = "edited" /\ q.name = "edited"

\* C7: a successful future-scope delete on an occurrence of series S due on d
\* sets the deleted flag of the non-deleted occurrences of S due on or after
\* d and changes nothing else in the table BillOccurrence; a rejected one
\* changes nothing.
C7_DeleteFutureFrame ==
    [][/\ (IsEdit /\ resp'.op = "DELETE" /\ resp'.option = "future"
           /\ resp'.status # 200) => BillOccurrence' = BillOccurrence
       /\ \A t \in BillOccurrence :
          (IsEdit /\ Succeeded(resp', "DELETE", "future") /\ resp'.id = t.id)
          => /\ SameIds
             /\ \A r \in BillOccurrence :
                   RowOf(BillOccurrence', r.id) =
                       IF r.bill_id = t.bill_id /\ ~r.deleted
                          /\ StrLeq(t.due_date, r.due_date)
                       THEN [r EXCEPT !.deleted = TRUE]
                       ELSE r]_vars

\* C7 witness: a future-scope delete has succeeded on a series that keeps an
\* earlier non-deleted occurrence, while another series holds non-deleted
\* occurrences due after the target.
C7_Witness ==
    /\ Succeeded(resp, "DELETE", "future")
    /\ \E t \in BillOccurrence, r \in BillOccurrence, q \in BillOccurrence :
          /\ t.id = resp.id /\ t.deleted
          /\ r.bill_id = t.bill_id /\ ~r.deleted /\ StrLess(r.due_date, t.due_date)
          /\ q.bill_id # t.bill_id /\ ~q.deleted /\ StrLess(t.due_date, q.due_date)

\* C8 (as claimed): a successful future-scope update on an occurrence of
\* series S due on d overwrites name, amount, paid flag, paid date and status
\* of the non-deleted occurrences of S due on or after d and changes nothing
\* else in the table BillOccurrence.
C8_UpdateFutureFrame ==
    [][\A t \in BillOccurrence :
          (IsEdit /\ Succeeded(resp', "PUT", "future") /\ resp'.id = t.id)
          => /\ SameIds
             /\ \A r \in BillOccurrence :
                   LET after == RowOf(BillOccurrence', r.id)
                       target == RowOf(BillOccurrence', t.id)
                   IN  IF r.bill_id = t.bill_id /\ ~r.deleted
                          /\ StrLeq(t.due_date, r.due_date)
                       THEN after = [r EXCEPT !.name = target.name,
                                              !.amount = target.amount,
                                              !.is_paid = target.is_paid,
                                              !.paid_date = target.paid_date,
                                              !.status = target.status]
                       ELSE after = r]_vars

\* C9: a get-window request for a month after the month of d inserts no
\* occurrence of a monthly series when it directly follows a successful
\* future-scope update on the occurrence of the series due on d, and whenever
\* the boundary of the series is the day after d.
C9_NoRegeneration ==
    [][IsGetWindow =>
         /\ \A t \in BillOccurrence :
               (Succeeded(resp, "PUT", "future") /\ resp.id = t.id
                /\ Bill[t.bill_id].recurrence = "monthly"
                /\ MonthLess(MonthOf(t.due_date), resp'.month))
               => \A x \in Inserted : x.bill_id # t.bill_id
         /\ \A b \in 1..Len(Bill) :
               (Bill[b].recurrence = "monthly"
                /\ Bill[b].deletedFromDate # NULL
                /\ MonthLess(MonthOf(PrevDay(Bill[b].deletedFromDate)), resp'.month))
               => \A x \in Inserted : x.bill_id # b]_vars

\* C9 witness: a get-window request has completed right after a successful
\* future-scope update on an occurrence of a monthly series, for a later month
\* in which the series has no occurrence.
C9_Witness ==
    /\ resp.op = "GET" /\ resp.status = 200
    /\ Succeeded(prev, "PUT", "future")
    /\ \E t \in BillOccurrence :
          /\ t.id = prev.id
          /\ Bill[t.bill_id].recurrence = "monthly"
          /\ MonthLess(MonthOf(t.due_date), resp.month)
          /\ \A r \in BillOccurrence :
                r.bill_id = t.bill_id => ~startsWith(r.due_date, resp.month)

\* C10 (as claimed): once a future-scope delete has set the boundary of a
\* series to D, no get-window request inserts an occurrence of the series due
\* on or after D.
C10_HaltedForever ==
    [][IsGetWindow =>
         \A x \in Inserted :
             haltedFrom[x.bill_id] = NULL
             \/ StrLess(x.due_date, haltedFrom[x.bill_id])]_vars

\* C11 (as claimed): the list a completed get-window request for month M
\* returns is the set of the occurrences due in M that are not deleted and
\* are due before the boundary of their series.
C11_ActiveWindowRead ==
    (resp.op = "GET" /\ resp.status = 200) =>
        resp.body =
            {r \in BillOccurrence :
                /\ startsWith(r.due_date, resp.month)
                /\ ~r.deleted
                /\ \/ Bill[r.bill_id].deletedFromDate = NULL
                   \/ StrLess(r.due_date, Bill[r.bill_id].deletedFromDate)}

\* the request is one the handlers reject: an unknown id, a scope that is
\* neither this nor future, or a future-scope update with another due date
Rejectable(id, body, option) ==
    \/ option \notin {"this", "future"}
    \/ SelectById(BillOccurrence, id) = {}
    \/ /\ option = "future"
       /\ \E r \in SelectById(BillOccurrence, id) :
             "dueDate" \in DOMAIN body /\ body.dueDate # r.due_date

\* C12: an update or delete request with an unknown id, with a scope that is
\* neither this nor future, or a future-scope update with a due date other
\* than the target's is answered 404 or 400 and changes no row of
\* BillOccurrence and no row of Bill.
C12_RejectedWritesNothing ==
    [][/\ \A id \in TargetIds, body \in workload.bodies, o \in workload.options :
             (UpdateOccurrence(id, body, o) /\ Rejectable(id, body, o))
             => /\ resp'.status \in {400, 404}
                /\ BillOccurrence' = BillOccurrence /\ Bill' = Bill
       /\ \A id \in TargetIds, o \in workload.options :
             (DeleteOccurrence(id, o) /\ Rejectable(id, <<>>, o))
             => /\ resp'.status \in {400, 404}
                /\ BillOccurrence' = BillOccurrence /\ Bill' = Bill]_vars

\* C12 witness: a future-scope update with another due date has been rejected
\* while the store holds occurrences and a boundary is set.
C12_Witness ==
    /\ resp.op = "PUT" /\ resp.option = "future" /\ resp.status = 400
    /\ BillOccurrence # {}
    /\ \E b \in 1..Len(Bill) : Bill[b].deletedFromDate # NULL

\* the due dates of the occurrences a call has returned, in order
DueDates(occurrences) == [k \in 1..Len(occurrences) |-> occurrences[k].due_date]

\* the anchor k calendar months on: the same day-of-month, or the last day of
\* a shorter month
KthMonth(anchor, k) ==
    LET mi == anchor[1] * 12 + (anchor[2] - 1) + k
        y == mi \div 12
        m == (mi % 12) + 1
    IN  <<y, m, IF anchor[3] > DaysInMonth(y, m) THEN DaysInMonth(y, m) ELSE anchor[3]>>

\* date b is one recurrence interval after date a
OneInterval(recurrence, a, b) ==
    IF recurrence = "weekly" THEN parseISO(b) - parseISO(a) = 7
    ELSE IF recurrence = "monthly"
    THEN (b[1] * 12 + b[2]) - (a[1] * 12 + a[2]) = 1
    ELSE b[1] - a[1] = 1 /\ b[2] = a[2]

\* C13 (as claimed): for a series with recurrence none, whose boundary does not
\* close the anchor, generate returns exactly one occurrence, dated at the
\* anchor, whatever the horizon.
C13_NoneOnce ==
    (/\ generated # NULL
     /\ generated.bill.recurrence = "none"
     /\ \/ generated.bill.deletedFromDate = NULL
        \/ StrLess(generated.bill.dueDate, generated.bill.deletedFromDate))
    => DueDates(generated.occurrences) = <<generated.bill.dueDate>>

\* C14 (as claimed): for a weekly, monthly or yearly series and horizon H,
\* every occurrence generate returns is due within [anchor, anchor + H months]
\* and every two consecutive ones are one recurrence interval apart.
C14_RangeAndInterval ==
    (generated # NULL /\ generated.bill.recurrence # "none") =>
        LET due == DueDates(generated.occurrences)
            last == formatISO(addMonths(parseISO(generated.bill.dueDate),
                                        generated.monthsAhead))
        IN  /\ \A k \in 1..Len(due) :
                  StrLeq(generated.bill.dueDate, due[k]) /\ StrLeq(due[k], last)
            /\ \A k \in 1..(Len(due) - 1) :
                  OneInterval(generated.bill.recurrence, due[k], due[k + 1])

\* C15 (as claimed): for a monthly series the k-th occurrence generate returns
\* (the anchor being the 0-th) is due in the k-th calendar month after the
\* anchor's, on the anchor's day-of-month or on the last day of a shorter month.
C15_MonthlyDay ==
    (generated # NULL /\ generated.bill.recurrence = "monthly") =>
        \A k \in 1..Len(generated.occurrences) :
            generated.occurrences[k].due_date = KthMonth(generated.bill.dueDate, k - 1)

\* C16 (as claimed): for a monthly series without clamping and without
\* boundary, generate with horizon H returns exactly H + 1 occurrences, due at
\* anchor + k months for k = 0..H.
C16_InclusiveHorizon ==
    (/\ generated # NULL
     /\ generated.bill.recurrence = "monthly"
     /\ generated.bill.dueDate[3] <= 28
     /\ generated.bill.deletedFromDate = NULL)
    => DueDates(generated.occurrences) =
           [k \in 1..(generated.monthsAhead + 1) |->
               KthMonth(generated.bill.dueDate, k - 1)]

\* C17: when the series has a boundary B, every occurrence generate returns is
\* due strictly before B.
C17_BeforeBoundary ==
    (generated # NULL /\ generated.bill.deletedFromDate # NULL) =>
        \A k \in 1..Len(generated.occurrences) :
            StrLess(generated.occurrences[k].due_date, generated.bill.deletedFromDate)

\* C17 witness: generate has returned occurrences of a recurring series whose
\* next recurrence date, within the horizon, is the boundary itself.
C17_Witness ==
    /\ generated # NULL
    /\ generated.bill.deletedFromDate # NULL
    /\ generated.bill.recurrence # "none"
    /\ generated.monthsAhead = 12
    /\ Len(generated.occurrences) >= 2
    /\ formatISO(NextCursor(generated.bill.recurrence,
                            parseISO(generated.occurrences[
                                Len(generated.occurrences)].due_date)))
         = generated.bill.deletedFromDate

\* C18 (as claimed): the due dates generate returns for a series and a horizon
\* are the same whatever occurrences the store holds.
C18_StoreIndependent ==
    generated # NULL =>
        DueDates(generated.occurrences) =
            DueDates(generateOccurrences(generated.bill, generated.monthsAhead, {}, 1))

\* C20 (as claimed): when a get-window request has met no failure of storage
\* other than uniqueness violations, every candidate of its batch has been
\* attempted: the store holds a row for each of them, the one the request
\* inserted or the one it collided with.
C20_BatchNotAborted ==
    (resp.op = "GET" /\ resp.month[2] \in 1..12 /\ resp.error # StorageFailed) =>
        resp.toInsert \subseteq KeysOf(BillOccurrence)

\* C19 (as claimed): with get-window requests for one month in flight
\* together, the store never holds two rows for one (series, due date), and
\* every request that has been answered has been answered with success.
C19_ConcurrentWindows ==
    /\ \A x, y \in BillOccurrence :
           (x.bill_id = y.bill_id /\ x.due_date = y.due_date) => x = y
    /\ \A r \in DOMAIN requests :
           requests[r].pc = "done" => requests[r].status = 200

\* C21: a get-window request for month M leaves every series row and every
\* occurrence row it found as they were, and every row it inserts is due in M.
C21_InsertsOnlyInMonth ==
    [][IsGetWindow =>
          /\ Bill' = Bill
          /\ BillOccurrence \subseteq BillOccurrence'
          /\ \A x \in BillOccurrence' \ BillOccurrence :
                 startsWith(x.due_date, resp'.month)]_vars

\* C21 witness: a get-window request has inserted occurrences of a series
\* anchored in an earlier month, which has stored occurrences outside the month.
C21_Witness ==
    /\ resp.op = "GET"
    /\ resp.status = 200
    /\ \E key \in resp.toInsert :
           /\ key \in KeysOf(BillOccurrence)
           /\ ~startsWith(Bill[key[1]].dueDate, resp.month)
           /\ \E r \in BillOccurrence :
                  r.bill_id = key[1] /\ ~startsWith(r.due_date, resp.month)

\* C22: generate returns no occurrence for a series whose anchor is not a
\* date, and a get-window request that meets such a series and no failure of
\* storage is answered 200, has no candidate of that series and has persisted
\* every candidate of the other series.
C22_UnparseableAnchor ==
    /\ \A b \in 1..Len(Bill) :
           ~IsDateString(Bill[b].dueDate) =>
               /\ \A monthsAhead \in Horizons :
                      generateOccurrences(Bill[b], monthsAhead, BillOccurrence, 1) = <<>>
               /\ \A r \in BillOccurrence : r.bill_id # b
    /\ (/\ resp.op = "GET"
        /\ resp.error # StorageFailed
        /\ \E b \in 1..Len(Bill) : ~IsDateString(Bill[b].dueDate))
       => /\ resp.status = 200
          /\ \A key \in resp.toInsert : IsDateString(Bill[key[1]].dueDate)
          /\ resp.toInsert \subseteq KeysOf(BillOccurrence)

\* C22 witness: a get-window request has met a series whose anchor is not a
\* date, ahead of two other series, and has persisted candidates of both.
C22_Witness ==
    /\ resp.op = "GET"
    /\ resp.status = 200
    /\ ~IsDateString(Bill[1].dueDate)
    /\ Bill[1].deletedFromDate = NULL
    /\ {key[1] : key \in resp.toInsert} = {2, 3}
    /\ resp.toInsert \subseteq KeysOf(BillOccurrence)

\* the value a request body gives a column: the one it supplies under the
\* field name, the stored one when it leaves the field out
Asked(body, field, stored) == IF field \in DOMAIN body THEN body[field] ELSE stored

\* C23: a successful this-scope update leaves every series row and every other
\* occurrence row as they were; on the target the supplied fields, the due
\* date included, take the supplied values and all else keeps its value.
C23_UpdateThisFrame ==
    [][\A id \in TargetIds, body \in workload.bodies :
          (UpdateOccurrence(id, body, "this") /\ resp'.status = 200) =>
              /\ Bill' = Bill
              /\ SameIds
              /\ \A r \in BillOccurrence :
                    RowOf(BillOccurrence', r.id) =
                        IF r.id = id
                        THEN [r EXCEPT !.name = Asked(body, "name", r.name),
                                       !.amount = Asked(body, "amount", r.amount),
                                       !.due_date = Asked(body, "dueDate", r.due_date),
                                       !.is_paid = Asked(body, "is_paid", r.is_paid),
                                       !.paid_date = Asked(body, "paid_date", r.paid_date),
                                       !.status = Asked(body, "status", r.status)]
                        ELSE r]_vars

\* C23 witness: a this-scope update has moved its target to a date off the
\* recurrence, the target keeping the name and the amount of its series.
C23_Witness ==
    /\ Succeeded(resp, "PUT", "this")
    /\ \E r \in BillOccurrence :
          /\ r.id = resp.id
          /\ r.due_date = <<2025, 1, 20>>
          /\ r.name = Bill[r.bill_id].name
          /\ r.amount = Bill[r.bill_id].amount
          /\ \E q \in BillOccurrence : q.bill_id = r.bill_id /\ q.id # r.id

\* C24: a successful this-scope delete sets the deleted flag of its target and
\* changes no other column, no other occurrence and no series row; a row whose
\* deleted flag is set keeps it, and no get-window request lists such a row.
C24_DeleteThisFrame ==
    [][/\ \A id \in TargetIds :
             (DeleteOccurrence(id, "this") /\ resp'.status = 200) =>
                 /\ Bill' = Bill
                 /\ SameIds
                 /\ \A r \in BillOccurrence :
                       RowOf(BillOccurrence', r.id) =
                           IF r.id = id THEN [r EXCEPT !.deleted = TRUE] ELSE r
       /\ \A r \in BillOccurrence :
             r.deleted =>
                 /\ \E x \in BillOccurrence' : x.id = r.id /\ x.deleted
                 /\ IsGetWindow => \A x \in resp'.body : x.id # r.id]_vars

\* C24 witness: a get-window request right after a this-scope delete has
\* listed occurrences of the month of the target, the target still stored.
C24_Witness ==
    /\ resp.op = "GET"
    /\ resp.status = 200
    /\ Succeeded(prev, "DELETE", "this")
    /\ \E r \in BillOccurrence :
          /\ r.id = prev.id
          /\ r.deleted
          /\ startsWith(r.due_date, resp.month)
          /\ \E x \in resp.body : x.bill_id = r.bill_id

\* the k-th recurrence date of a series, the anchor being the 0-th: k weeks,
\* calendar months or years after the anchor, on the anchor's day-of-month or
\* the last day of a shorter month
KthDate(recurrence, anchor, k) ==
    IF recurrence = "weekly" THEN formatISO(parseISO(anchor) + 7 * k)
    ELSE IF recurrence = "monthly" THEN KthMonth(anchor, k)
    ELSE KthMonth(anchor, 12 * k)

\* the horizon of create-series, in months
InitialMonths == 12

\* the recurrence dates of a series within [anchor, anchor + 12 months]
InitialDates(recurrence, anchor) ==
    IF recurrence = "none" THEN {anchor}
    ELSE {d \in {KthDate(recurrence, anchor, k) : k \in 0..53} :
             StrLeq(d, KthMonth(anchor, InitialMonths))}

\* C25 (as claimed): when create-series has succeeded, the new series has a
\* null boundary and its occurrences are one for every recurrence date in
\* [anchor, anchor + 12 months], each with the series' name and amount, paid
\* flag false, paid date null, status upcoming and deleted flag false.
C25_InitialWindow ==
    (resp.op = "POST" /\ resp.status = 201) =>
        /\ Bill[resp.id].deletedFromDate = NULL
        /\ \A d \in InitialDates(Bill[resp.id].recurrence, Bill[resp.id].dueDate) :
               Cardinality({r \in BillOccurrence :
                               r.bill_id = resp.id /\ r.due_date = d}) = 1
        /\ \A r \in BillOccurrence :
               r.bill_id = resp.id =>
                   /\ r.due_date \in InitialDates(Bill[resp.id].recurrence,
                                                  Bill[resp.id].dueDate)
                   /\ r.name = Bill[resp.id].name
                   /\ r.amount = Bill[resp.id].amount
                   /\ r.is_paid = FALSE
                   /\ r.paid_date = NULL
                   /\ r.status = "upcoming"
                   /\ r.deleted = FALSE

\* C26 (as claimed): when a future-scope delete on a series and the get-window
\* requests in flight beside it have all completed, no non-deleted occurrence
\* of the series is due on or after the boundary the delete has set.
C26_DeleteWindowRace ==
    (/\ deleting # NULL
     /\ deleting.pc = "done"
     /\ \A r \in DOMAIN requests : requests[r].pc = "done")
    => \A x \in BillOccurrence :
           (x.bill_id = deleting.existingOccurrence.bill_id /\ ~x.deleted)
           => StrLess(x.due_date, Bill[x.bill_id].deletedFromDate)

\* C27 (as claimed): once a this-scope delete has soft-deleted the occurrence
\* of a series due on a date, the store never again holds a non-deleted
\* occurrence of the series due on that date.
C27_NotRecreated ==
    \A key \in removed :
        \A r \in BillOccurrence :
            (r.bill_id = key[1] /\ r.due_date = key[2]) => r.deleted

\* C28 (as claimed): no get-window request inserts an occurrence of a series
\* on a date a this-scope update has moved an occurrence of the series away
\* from.
C28_MovedNotRecreated ==
    [][IsGetWindow =>
          \A x \in Inserted : <<x.bill_id, x.due_date>> \notin movedFrom]_vars

\* C29 (as claimed): a this-scope update whose dueDate is held by another
\* occurrence of the target's series, deleted or not, is answered 409 and
\* changes neither table.
C29_MoveConflict ==
    [][\A id \in TargetIds, body \in workload.bodies :
          (/\ UpdateOccurrence(id, body, "this")
           /\ "dueDate" \in DOMAIN body
           /\ \E t \in BillOccurrence, q \in BillOccurrence :
                 /\ t.id = id /\ q.id # id
                 /\ q.bill_id = t.bill_id /\ q.due_date = body.dueDate)
          => /\ resp'.status = 409
             /\ BillOccurrence' = BillOccurrence
             /\ Bill' = Bill]_vars

\* C30: under every request, every occurrence id in the store stays in the
\* store, and every occurrence whose deleted flag is set keeps it set.
C30_SoftDeleteForever ==
    [][\A r \in BillOccurrence :
          \E x \in BillOccurrence' :
              x.id = r.id /\ (r.deleted => x.deleted)]_vars

\* C30 witness: an update has succeeded on a soft-deleted occurrence and has
\* overwritten its fields; the occurrence is still stored and still deleted.
C30_Witness ==
    /\ resp.op = "PUT"
    /\ resp.status = 200
    /\ \E r \in BillOccurrence :
          r.id = resp.id /\ r.deleted /\ r.name = "edited"

=============================================================================
